---- MODULE Spec2Model ----
(***************************************************************************)
(* Model of the Enhanced Link Suggester (src/EnhancedLinkSuggester.ts).    *)
(*                                                                         *)
(* Strings of the program are sequences of one-character strings, so that  *)
(* concatenation, substring and lower-casing are computed, not assumed.    *)
(* A TFile handle is represented by its path; its basename and its parsed  *)
(* metadata are looked up in the host's (static) vault.  The preview text  *)
(* of a suggestion (content) is not represented; the read that fetches it  *)
(* is, because it suspends the request and may fail.                       *)
(***************************************************************************)
EXTENDS Integers, Sequences, FiniteSets, TLC

VARIABLES
    lastOpenFiles,      \* host: workspace.getLastOpenFiles(), most recent first
    recentFiles,        \* this.recentFiles
    plugin,             \* "init" | "registered" | "disabled" (EnhancedLinkPlugin.onload)
    omnisearch,         \* is window.omnisearch.search a function
    notices,            \* number of Notice objects shown
    pc,                 \* position of the getSuggestions invocation
    query,              \* context.query, as typed
    currentFilePath,    \* context.file?.path (NoPath when undefined)
    recentMatches,      \* local candidates in generation order
    uniqueSuggestions,  \* the Map, as the sequence of its values in key insertion order
    omniResults,        \* hits returned by omnisearchApi.search
    idx,                \* index of the hit whose preview read is awaited
    folded,             \* content candidates built from hits so far, in order
    searchCalls,        \* calls of omnisearchApi.search made by this invocation
    searchArg,          \* argument of the last call of omnisearchApi.search
    searchRejected,     \* did the search promise of this invocation reject
    startRecent,        \* this.recentFiles when the invocation started
    outcome,            \* "pending" | "resolved" | "rejected"
    result,             \* the list getSuggestions resolved with
    line,               \* editor.getLine(cursor.line)
    cursor,             \* cursor.ch
    tpc,                \* "edit" | "called": has onTrigger run on (line, cursor)
    trigger,            \* what onTrigger returned
    invocations,        \* overlapping getSuggestions invocations, in issue order
    delivered,          \* the invocations whose promise settled, in settling order
    events,             \* file-open events delivered so far (recency tracker run)
    now,                \* debounced: the host's clock
    timers,             \* debounced: the host's pending setTimeout timers
    timeout,            \* debounced: the closure's timeout (0 when null)
    currentResolve,     \* debounced: the call whose resolve/reject pair is held in
                        \* currentResolve/currentReject (0 when null)
    calls,              \* debounced: the calls made and the state of their promises
    running,            \* debounced: calls whose timer callback awaits func
    invoked             \* debounced: the invocations of func, in order

suggVars == <<pc, query, currentFilePath, recentMatches, uniqueSuggestions, omniResults,
              idx, folded, searchCalls, searchArg, searchRejected, startRecent,
              outcome, result>>
hostVars == <<lastOpenFiles, recentFiles, plugin, omnisearch, notices>>
editVars == <<line, cursor, tpc, trigger>>
debVars == <<now, timers, timeout, currentResolve, calls, running, invoked>>
otherVars == <<invocations, delivered, events, debVars>>
vars == <<hostVars, suggVars, editVars, otherVars>>

----------------------------------------------------------------------------
(* Bounds of the model *)

MaxOpen == 2    \* length of the host's last-open list
MaxHits == 2    \* hits returned by one external search
MaxLine == 4    \* length of the edited line
MaxInvocations == 2     \* getSuggestions invocations issued in one run
MaxHostList == 22       \* length of the host's last-open list, recency tracker run
MaxEvents == 2          \* file-open events, recency tracker run
MaxCalls == 3           \* calls of the debounced function
MaxTime == 3            \* clock ticks during which calls arrive
Delay == 2              \* the delay given to debounced, in clock ticks

----------------------------------------------------------------------------
(* Sequences *)

Front(s) == SubSeq(s, 1, Len(s) - 1)
Last(s) == s[Len(s)]
Slice(s, n) == SubSeq(s, 1, IF Len(s) < n THEN Len(s) ELSE n)

RECURSIVE SeqsUpTo(_, _)
SeqsUpTo(S, n) ==
    IF n = 0 THEN {<<>>}
    ELSE LET shorter == SeqsUpTo(S, n - 1)
         IN  shorter \cup {Append(s, x) : s \in {t \in shorter : Len(t) = n - 1}, x \in S}

NoDup(s) == \A i, j \in 1..Len(s) : i # j => s[i] # s[j]

----------------------------------------------------------------------------
(* Strings *)

LowerChar(c) == IF c = "A" THEN "a" ELSE IF c = "B" THEN "b" ELSE c
toLowerCase(s) == [i \in 1..Len(s) |-> LowerChar(s[i])]

----------------------------------------------------------------------------
(* The host's vault and metadata cache (static) *)

NoPath == ""
P1 == "A.md"
P2 == "dir/A.md"
P3 == "A#Ab.md"
P4 == "b.md"
Gone == "gone.md"

VaultPaths == {P1, P2, P3, P4}
AllPaths == VaultPaths \cup {Gone}

\* further documents of the vault, to fill the host's list beyond the capacity
Fillers ==
    <<"n01.md", "n02.md", "n03.md", "n04.md", "n05.md", "n06.md", "n07.md", "n08.md",
      "n09.md", "n10.md", "n11.md", "n12.md", "n13.md", "n14.md", "n15.md", "n16.md",
      "n17.md", "n18.md">>

LivePaths == VaultPaths \cup {Fillers[k] : k \in 1..Len(Fillers)}

\* app.vault.getFileByPath(path) returns a TFile
getFileByPath(path) == path \in LivePaths

basename(path) ==
    CASE path = P1 -> <<"A">>
      [] path = P2 -> <<"A">>
      [] path = P3 -> <<"A", "#", "A", "b">>
      [] path = P4 -> <<"b">>
      [] OTHER -> <<>>

\* app.metadataCache.getFileCache(file) is not null
hasFileCache(path) == path \in {P1, P2, P3}

\* cache.frontmatter.aliases (empty when there is no frontmatter)
aliases(path) == IF path = P1 THEN << <<"b">>, <<"a", "B">> >> ELSE <<>>

\* cache.headings, each by its heading text
headings(path) == IF path = P1 THEN << <<"A", "b">>, <<"b">>, <<"A", "b">> >> ELSE <<>>

----------------------------------------------------------------------------
(* The fuzzy library: fuzzy.match and fuzzy.filter *)

FuzzyInfinity == 1000000
NoMatch == -1

RECURSIVE fuzzyLoop(_, _, _, _, _, _)
fuzzyLoop(pattern, compareString, i, patternIdx, currScore, totalScore) ==
    IF i > Len(compareString)
    THEN [patternIdx |-> patternIdx, totalScore |-> totalScore]
    ELSE IF patternIdx <= Len(pattern) /\ compareString[i] = pattern[patternIdx]
         THEN fuzzyLoop(pattern, compareString, i + 1, patternIdx + 1,
                        2 * currScore + 1, totalScore + 2 * currScore + 1)
         ELSE fuzzyLoop(pattern, compareString, i + 1, patternIdx, 0, totalScore)

\* the score of the match, NoMatch when fuzzy.match returns null
fuzzyMatch(pattern, str) ==
    LET compareString == toLowerCase(str)
        p == toLowerCase(pattern)
        r == fuzzyLoop(p, compareString, 1, 1, 0, 0)
    IN  IF r.patternIdx = Len(p) + 1
        THEN IF compareString = p THEN FuzzyInfinity ELSE r.totalScore
        ELSE NoMatch

\* insert a matched element into the list sorted by score descending, then index
RECURSIVE fuzzyInsert(_, _)
fuzzyInsert(sorted, x) ==
    IF sorted = <<>> THEN <<x>>
    ELSE IF Last(sorted).score < x.score
              \/ (Last(sorted).score = x.score /\ Last(sorted).index > x.index)
         THEN Append(fuzzyInsert(Front(sorted), x), Last(sorted))
         ELSE Append(sorted, x)

RECURSIVE fuzzySorted(_, _, _)
fuzzySorted(pattern, arr, n) ==
    IF n = 0 THEN <<>>
    ELSE LET rest == fuzzySorted(pattern, arr, n - 1)
             s == fuzzyMatch(pattern, arr[n])
         IN  IF s = NoMatch THEN rest ELSE fuzzyInsert(rest, [index |-> n, score |-> s])

\* fuzzy.filter(pattern, arr): the matching elements (.original), best score first
fuzzyFilter(pattern, arr) ==
    LET sorted == fuzzySorted(pattern, arr, Len(arr))
    IN  [k \in 1..Len(sorted) |-> arr[sorted[k].index]]

----------------------------------------------------------------------------
(* Scores of the local facets *)

TitleScore == 1000
AliasScore == 500
HeadingScore == 100

MAX_RECENT_FILES == 20

----------------------------------------------------------------------------
(* Recency tracker *)

\* the refresh without the truncation to the capacity
updateRecentFilesNoSlice(paths) == SelectSeq(paths, getFileByPath)

\* updateRecentFiles: slice to the capacity, resolve, drop what does not resolve
updateRecentFiles(paths) ==
    SelectSeq(Slice(paths, MAX_RECENT_FILES), getFileByPath)

\* the host's list after a document is activated: most recent first, bounded
hostActivate(paths, p) ==
    Slice(<<p>> \o SelectSeq(paths, LAMBDA x : x # p), MaxOpen)

\* the same, for a host that keeps a list longer than the capacity
hostActivateLong(paths, p) ==
    Slice(<<p>> \o SelectSeq(paths, LAMBDA x : x # p), MaxHostList)

----------------------------------------------------------------------------
(* Stage 1: the local match engine *)

titleMatches(q, file) ==
    IF Len(fuzzyFilter(q, <<toLowerCase(basename(file))>>)) > 0
    THEN << [type |-> "note", displayText |-> basename(file),
             insertText |-> basename(file), filePath |-> file,
             score |-> TitleScore, isRecent |-> TRUE] >>
    ELSE <<>>

aliasMatches(q, file) ==
    LET found == fuzzyFilter(q, aliases(file))
    IN  [k \in 1..Len(found) |->
            [type |-> "alias", displayText |-> found[k],
             insertText |-> basename(file) \o <<"|">> \o found[k], filePath |-> file,
             score |-> AliasScore, isRecent |-> TRUE]]

headingMatches(q, file) ==
    LET found == fuzzyFilter(q, headings(file))
    IN  [k \in 1..Len(found) |->
            [type |-> "heading", displayText |-> found[k],
             insertText |-> basename(file) \o <<"#">> \o found[k], filePath |-> file,
             score |-> HeadingScore, isRecent |-> TRUE]]

\* the iteration without the guard on the file's metadata
fileMatchesNoCacheGuard(q, file) ==
    titleMatches(q, file)
    \o (IF q # <<>> THEN aliasMatches(q, file) \o headingMatches(q, file) ELSE <<>>)

\* one iteration of the loop over this.recentFiles
fileMatches(q, file) ==
    IF ~hasFileCache(file) THEN <<>>
    ELSE titleMatches(q, file)
         \o (IF q # <<>> THEN aliasMatches(q, file) \o headingMatches(q, file) ELSE <<>>)

RECURSIVE localMatches(_, _)
localMatches(q, files) ==
    IF files = <<>> THEN <<>>
    ELSE localMatches(q, Front(files)) \o fileMatches(q, Last(files))

\* the candidates pushed only after an awaited getFirstLineWithoutFrontmatter
readPositions(matches) == {i \in 1..Len(matches) : matches[i].type \in {"note", "alias"}}

----------------------------------------------------------------------------
(* The Map uniqueSuggestions: values in key insertion order *)

mapHas(m, key) == \E i \in 1..Len(m) : m[i].insertText = key
mapIndex(m, key) == CHOOSE i \in 1..Len(m) : m[i].insertText = key
mapGet(m, key) == m[mapIndex(m, key)]

\* a list that is pushed to, instead of a keyed map
mapSetPush(m, sug) == Append(m, sug)

\* a set that deletes the present key and inserts the new value last
mapSetMoveLast(m, sug) ==
    Append(SelectSeq(m, LAMBDA s : s.insertText # sug.insertText), sug)

\* Map.set: a present key keeps its place, a new key goes last
mapSet(m, sug) ==
    IF mapHas(m, sug.insertText)
    THEN [m EXCEPT ![mapIndex(m, sug.insertText)] = sug]
    ELSE Append(m, sug)

\* the loop with a later candidate of equal score replacing the earlier one
RECURSIVE mergeRecentKeepLast(_, _)
mergeRecentKeepLast(m, matches) ==
    IF matches = <<>> THEN m
    ELSE LET sug == Head(matches)
             next == IF ~mapHas(m, sug.insertText)
                        \/ mapGet(m, sug.insertText).score <= sug.score
                     THEN mapSet(m, sug) ELSE m
         IN  mergeRecentKeepLast(next, Tail(matches))

\* the loop over recentMatches
RECURSIVE mergeRecent(_, _)
mergeRecent(m, matches) ==
    IF matches = <<>> THEN m
    ELSE LET sug == Head(matches)
             next == IF ~mapHas(m, sug.insertText)
                        \/ mapGet(m, sug.insertText).score < sug.score
                     THEN mapSet(m, sug) ELSE m
         IN  mergeRecent(next, Tail(matches))

----------------------------------------------------------------------------
(* Stage 2: external hits *)

\* what omnisearchApi.search may return: hits by basename, path and score
HitPalette ==
    {[basename |-> basename(P1), path |-> P1, score |-> 2000],
     [basename |-> basename(P2), path |-> P2, score |-> 50],
     [basename |-> basename(P3), path |-> P3, score |-> 2000],
     [basename |-> basename(P4), path |-> P4, score |-> 50],
     [basename |-> <<"b">>, path |-> Gone, score |-> 2000]}

\* a content candidate tagged recent whatever the working set
omniSugAlwaysRecent(hit, recent) ==
    [type |-> "content", displayText |-> hit.basename, insertText |-> hit.basename,
     filePath |-> hit.path, score |-> hit.score, isRecent |-> TRUE]

omniSug(hit, recent) ==
    [type |-> "content", displayText |-> hit.basename, insertText |-> hit.basename,
     filePath |-> hit.path, score |-> hit.score,
     isRecent |-> \E i \in 1..Len(recent) : recent[i] = hit.path]

\* fold one content candidate into the map
mergeOmni(m, sug) ==
    IF ~mapHas(m, sug.insertText) \/ sug.score > mapGet(m, sug.insertText).score
    THEN mapSet(m, sug) ELSE m

\* the loop over omniResults runs on without suspending while the hit's file
\* does not resolve; it stops at the next hit whose preview must be read
RECURSIVE foldUnresolved(_, _, _, _, _)
foldUnresolved(m, f, hits, i, recent) ==
    IF i > Len(hits) \/ getFileByPath(hits[i].path)
    THEN [map |-> m, idx |-> i, folded |-> f]
    ELSE foldUnresolved(mergeOmni(m, omniSug(hits[i], recent)),
                        Append(f, omniSug(hits[i], recent)), hits, i + 1, recent)

----------------------------------------------------------------------------
(* Combine, filter, sort *)

\* no self-link suppression
filterCurrentNone(suggestions, cur) == suggestions

filterCurrent(suggestions, cur) == SelectSeq(suggestions, LAMBDA s : s.filePath # cur)

\* a comparator on the score alone
compareScoreOnly(a, b) == b.score - a.score

\* the comparator given to Array.prototype.sort
compare(a, b) ==
    IF a.isRecent /\ ~b.isRecent THEN -1
    ELSE IF ~a.isRecent /\ b.isRecent THEN 1
    ELSE b.score - a.score

RECURSIVE sortInsert(_, _)
sortInsert(sorted, x) ==
    IF sorted = <<>> THEN <<x>>
    ELSE IF compare(Last(sorted), x) > 0
         THEN Append(sortInsert(Front(sorted), x), Last(sorted))
         ELSE Append(sorted, x)

\* Array.prototype.sort with compare: stable
RECURSIVE sortSuggestions(_)
sortSuggestions(s) ==
    IF s = <<>> THEN <<>> ELSE sortInsert(sortSuggestions(Front(s)), Last(s))

finalList(m, cur) == sortSuggestions(filterCurrent(m, cur))

----------------------------------------------------------------------------
(* Trigger detection *)

NoTrigger == [found |-> FALSE, start |-> 0, end |-> 0, query |-> <<>>]

\* where /\[([^\]]*)$/ can match in the text: a "[" with no "]" after it
matchStarts(text) ==
    {i \in 1..Len(text) : text[i] = "[" /\ \A j \in (i + 1)..Len(text) : text[j] # "]"}

Min(S) == CHOOSE x \in S : \A y \in S : x <= y
Max(S) == CHOOSE x \in S : \A y \in S : x >= y

\* onTrigger on line text l with the cursor at offset ch (offsets count from 0)
onTrigger(l, ch) ==
    LET text == SubSeq(l, 1, ch)
    IN  IF matchStarts(text) = {} THEN NoTrigger
        ELSE LET i == Min(matchStarts(text))
             IN  [found |-> TRUE, start |-> i - 1, end |-> ch + 1,
                  query |-> SubSeq(text, i + 1, Len(text))]

\* editor.replaceRange(text, from, to) on line l: offsets count from 0, and a
\* position past the end of the line is clipped to the end
replaceRange(l, text, from, to) ==
    SubSeq(l, 1, from) \o text \o SubSeq(l, (IF to > Len(l) THEN Len(l) ELSE to) + 1, Len(l))

\* `[[${suggestion.insertText}]]`
linkText(insertText) == <<"[", "[">> \o insertText \o <<"]", "]">>

----------------------------------------------------------------------------
(* Initial states *)

QuerySet == {<<>>, <<"A">>, <<"b">>}
CurrentSet == {NoPath, P1}
LineChars == {"[", "]", "a"}
SelectKeys == {<<"A">>, <<"A", "|", "b">>}

\* The suggester reads the host's list only through updateRecentFiles, which
\* drops the paths that do not resolve: the lists over the vault's paths give
\* every working set that the lists with stale paths give.
OpenLists == {s \in SeqsUpTo(VaultPaths, MaxOpen) : NoDup(s)}

\* the engine returns a document at most once
HitLists ==
    {s \in SeqsUpTo(HitPalette, MaxHits) :
        \A i, j \in 1..Len(s) : i # j => s[i].path # s[j].path}

IdleSuggester ==
    /\ pc = "idle"
    /\ query = <<>>
    /\ currentFilePath = NoPath
    /\ recentMatches = <<>>
    /\ uniqueSuggestions = <<>>
    /\ omniResults = <<>>
    /\ idx = 0
    /\ folded = <<>>
    /\ searchCalls = 0
    /\ searchArg = <<>>
    /\ searchRejected = FALSE
    /\ startRecent = <<>>
    /\ outcome = "pending"
    /\ result = <<>>

IdleEditor ==
    /\ line = <<>>
    /\ cursor = 0
    /\ tpc = "edit"
    /\ trigger = NoTrigger

IdleDebounced ==
    /\ now = 0
    /\ timers = {}
    /\ timeout = 0
    /\ currentResolve = 0
    /\ calls = <<>>
    /\ running = {}
    /\ invoked = <<>>

IdleOther ==
    /\ invocations = <<>>
    /\ delivered = <<>>
    /\ events = 0
    /\ IdleDebounced

Init ==
    /\ lastOpenFiles \in OpenLists
    /\ recentFiles = <<>>
    /\ plugin = "init"
    /\ omnisearch \in BOOLEAN
    /\ notices = 0
    /\ IdleSuggester
    /\ IdleEditor
    /\ IdleOther

----------------------------------------------------------------------------
(* EnhancedLinkPlugin.onload and the suggester's constructor *)

OnLoadMissing ==
    /\ plugin = "init"
    /\ ~omnisearch
    /\ notices' = notices + 1
    /\ plugin' = "disabled"
    /\ UNCHANGED <<lastOpenFiles, recentFiles, omnisearch, suggVars, editVars, otherVars>>

OnLoadRegister ==
    /\ plugin = "init"
    /\ omnisearch
    /\ plugin' = "registered"
    /\ recentFiles' = updateRecentFiles(lastOpenFiles)
    /\ UNCHANGED <<lastOpenFiles, omnisearch, notices, suggVars, editVars, otherVars>>

\* the host activates document p; the "file-open" listener refreshes the working set
FileOpen(p) ==
    /\ lastOpenFiles' = hostActivate(lastOpenFiles, p)
    /\ recentFiles' = IF plugin = "registered"
                      THEN updateRecentFiles(lastOpenFiles') ELSE recentFiles
    /\ UNCHANGED <<plugin, omnisearch, notices, suggVars, editVars, otherVars>>

----------------------------------------------------------------------------
(* getSuggestions *)

\* lines 279-291: the invocation resolves with the filtered, sorted values of m
Complete(m, cur) ==
    /\ pc' = "done"
    /\ outcome' = "resolved"
    /\ uniqueSuggestions' = m
    /\ result' = finalList(m, cur)

\* after a step of the loop over omniResults: suspend on the next read or finish
Continue(st, hits) ==
    /\ folded' = st.folded
    /\ idx' = st.idx
    /\ IF st.idx > Len(hits)
       THEN Complete(st.map, currentFilePath)
       ELSE /\ pc' = "reading"
            /\ uniqueSuggestions' = st.map
            /\ UNCHANGED <<outcome, result>>

Begin(q, cur) ==
    /\ plugin = "registered"
    /\ pc = "idle"
    /\ query' = q
    /\ currentFilePath' = cur
    /\ startRecent' = recentFiles
    /\ omniResults' = <<>>
    /\ idx' = 0
    /\ folded' = <<>>
    /\ searchRejected' = FALSE

\* the preview read for local candidate i rejects: the loop is left with the
\* candidates pushed so far and the invocation rejects
GetSuggestionsReadFails(q, cur, i) ==
    /\ Begin(q, cur)
    /\ i \in readPositions(localMatches(toLowerCase(q), recentFiles))
    /\ recentMatches' = SubSeq(localMatches(toLowerCase(q), recentFiles), 1, i - 1)
    /\ pc' = "done"
    /\ outcome' = "rejected"
    /\ uniqueSuggestions' = <<>>
    /\ result' = <<>>
    /\ searchCalls' = 0
    /\ searchArg' = <<>>
    /\ UNCHANGED <<hostVars, editVars, otherVars>>

\* stage 1 completes and stage 2 is skipped
GetSuggestionsLocal(q, cur) ==
    /\ Begin(q, cur)
    /\ ~(Len(toLowerCase(q)) > 0 /\ omnisearch)
    /\ recentMatches' = localMatches(toLowerCase(q), recentFiles)
    /\ searchCalls' = 0
    /\ searchArg' = <<>>
    /\ Complete(mergeRecent(<<>>, recentMatches'), cur)
    /\ UNCHANGED <<hostVars, editVars, otherVars>>

\* stage 1 completes and the invocation awaits omnisearchApi.search(query)
GetSuggestionsSearch(q, cur) ==
    /\ Begin(q, cur)
    /\ Len(toLowerCase(q)) > 0 /\ omnisearch
    /\ recentMatches' = localMatches(toLowerCase(q), recentFiles)
    /\ searchCalls' = 1
    /\ searchArg' = toLowerCase(q)
    /\ pc' = "searching"
    /\ outcome' = "pending"
    /\ uniqueSuggestions' = mergeRecent(<<>>, recentMatches')
    /\ result' = <<>>
    /\ UNCHANGED <<hostVars, editVars, otherVars>>

SearchResolve(hits) ==
    /\ pc = "searching"
    /\ omniResults' = hits
    /\ Continue(foldUnresolved(uniqueSuggestions, <<>>, hits, 1, recentFiles), hits)
    /\ UNCHANGED <<query, currentFilePath, recentMatches, searchCalls, searchArg,
                   searchRejected, startRecent, hostVars, editVars, otherVars>>

\* the rejection handled by dropping what was merged so far
SearchRejectDropsAll ==
    /\ pc = "searching"
    /\ searchRejected' = TRUE
    /\ Complete(<<>>, currentFilePath)
    /\ UNCHANGED <<query, currentFilePath, recentMatches, omniResults, idx, folded,
                   searchCalls, searchArg, startRecent, hostVars, editVars, otherVars>>

SearchReject ==
    /\ pc = "searching"
    /\ searchRejected' = TRUE
    /\ Complete(uniqueSuggestions, currentFilePath)
    /\ UNCHANGED <<query, currentFilePath, recentMatches, omniResults, idx, folded,
                   searchCalls, searchArg, startRecent, hostVars, editVars, otherVars>>

\* the preview read of hit idx resolves: the hit is tagged and folded in
ReadResolve ==
    /\ pc = "reading"
    /\ LET sug == omniSug(omniResults[idx], recentFiles)
       IN  Continue(foldUnresolved(mergeOmni(uniqueSuggestions, sug), Append(folded, sug),
                                   omniResults, idx + 1, recentFiles),
                    omniResults)
    /\ UNCHANGED <<query, currentFilePath, recentMatches, omniResults, searchCalls,
                   searchArg, searchRejected, startRecent, hostVars, editVars, otherVars>>

\* the preview read of hit idx rejects: caught, the loop is abandoned
ReadReject ==
    /\ pc = "reading"
    /\ Complete(uniqueSuggestions, currentFilePath)
    /\ UNCHANGED <<query, currentFilePath, recentMatches, omniResults, idx, folded,
                   searchCalls, searchArg, searchRejected, startRecent, hostVars,
                   editVars, otherVars>>

\* the invocation's promise has been consumed; its locals are gone
Dismiss ==
    /\ pc = "done"
    /\ pc' = "idle"
    /\ query' = <<>>
    /\ currentFilePath' = NoPath
    /\ recentMatches' = <<>>
    /\ uniqueSuggestions' = <<>>
    /\ omniResults' = <<>>
    /\ idx' = 0
    /\ folded' = <<>>
    /\ searchCalls' = 0
    /\ searchArg' = <<>>
    /\ searchRejected' = FALSE
    /\ startRecent' = <<>>
    /\ outcome' = "pending"
    /\ result' = <<>>
    /\ UNCHANGED <<hostVars, editVars, otherVars>>

Next ==
    \/ OnLoadMissing
    \/ OnLoadRegister
    \/ \E p \in VaultPaths : FileOpen(p)
    \/ \E q \in QuerySet, cur \in CurrentSet :
          \E i \in 1..Len(localMatches(toLowerCase(q), recentFiles)) :
              GetSuggestionsReadFails(q, cur, i)
    \/ \E q \in QuerySet, cur \in CurrentSet : GetSuggestionsLocal(q, cur)
    \/ \E q \in QuerySet, cur \in CurrentSet : GetSuggestionsSearch(q, cur)
    \/ \E hits \in HitLists : SearchResolve(hits)
    \/ SearchReject
    \/ ReadResolve
    \/ ReadReject
    \/ Dismiss

Spec == Init /\ [][Next]_vars

----------------------------------------------------------------------------
(* The editor: typing, moving the cursor, and the host calling onTrigger *)

TypeChar(c) ==
    /\ Len(line) < MaxLine
    /\ line' = SubSeq(line, 1, cursor) \o <<c>> \o SubSeq(line, cursor + 1, Len(line))
    /\ cursor' = cursor + 1
    /\ tpc' = "edit"
    /\ trigger' = NoTrigger
    /\ UNCHANGED <<hostVars, suggVars, otherVars>>

MoveCursor(ch) ==
    /\ ch # cursor
    /\ cursor' = ch
    /\ tpc' = "edit"
    /\ trigger' = NoTrigger
    /\ UNCHANGED <<line, hostVars, suggVars, otherVars>>

OnTrigger ==
    /\ tpc = "edit"
    /\ trigger' = onTrigger(line, cursor)
    /\ tpc' = "called"
    /\ UNCHANGED <<line, cursor, hostVars, suggVars, otherVars>>

\* the user picks a suggestion; this.context is set while the last onTrigger
\* returned a trigger
SelectSuggestion(insertText) ==
    /\ tpc \in {"edit", "called"}
    /\ Len(line) <= MaxLine
    /\ tpc' = "selected"
    /\ trigger' = NoTrigger
    /\ IF ~trigger.found
       THEN UNCHANGED <<line, cursor>>
       ELSE /\ line' = replaceRange(line, linkText(insertText), trigger.start, trigger.end)
            /\ cursor' = trigger.start + Len(linkText(insertText))
    /\ UNCHANGED <<hostVars, suggVars, otherVars>>

InitTrigger ==
    /\ lastOpenFiles = <<>>
    /\ recentFiles = <<>>
    /\ plugin = "registered"
    /\ omnisearch = TRUE
    /\ notices = 0
    /\ IdleSuggester
    /\ IdleEditor
    /\ IdleOther

NextTrigger ==
    \/ \E c \in LineChars : TypeChar(c)
    \/ \E ch \in 0..Len(line) : MoveCursor(ch)
    \/ OnTrigger
    \/ \E insertText \in SelectKeys : SelectSuggestion(insertText)

SpecTrigger == InitTrigger /\ [][NextTrigger]_vars

----------------------------------------------------------------------------
(* Overlapping invocations of getSuggestions: the host calls it again while  *)
(* earlier invocations are suspended; each invocation has its own locals     *)

\* an invocation after stage 1, about to await omnisearchApi.search(query)
invocation(q, cur, recent) ==
    [query |-> q, cur |-> cur, pc |-> "searching",
     map |-> mergeRecent(<<>>, localMatches(toLowerCase(q), recent)),
     hits |-> <<>>, idx |-> 0, outcome |-> "pending", result |-> <<>>]

\* lines 279-291: the invocation resolves with the filtered, sorted values;
\* its locals are gone
settle(inv, m) ==
    [inv EXCEPT !.pc = "done", !.outcome = "resolved", !.map = <<>>,
                !.hits = <<>>, !.idx = 0, !.result = finalList(m, inv.cur)]

\* the invocation rejects
abort(inv) ==
    [inv EXCEPT !.pc = "done", !.outcome = "rejected", !.map = <<>>,
                !.hits = <<>>, !.idx = 0]

\* after a step of the loop over the hits: suspend on the next read or finish
advance(inv, st, hits) ==
    IF st.idx > Len(hits)
    THEN settle(inv, st.map)
    ELSE [inv EXCEPT !.pc = "reading", !.map = st.map, !.hits = hits, !.idx = st.idx]

\* invocation n becomes inv; if that settles its promise, the host receives it
Update(n, inv) ==
    /\ invocations' = [invocations EXCEPT ![n] = inv]
    /\ delivered' = IF inv.pc = "done"
                    THEN Append(delivered, [id |-> n, issued |-> Len(invocations)])
                    ELSE delivered

Issue(inv) ==
    /\ Len(invocations) < MaxInvocations
    /\ invocations' = Append(invocations, inv)
    /\ delivered' = IF inv.pc = "done"
                    THEN Append(delivered, [id |-> Len(invocations) + 1,
                                            issued |-> Len(invocations) + 1])
                    ELSE delivered
    /\ UNCHANGED <<hostVars, suggVars, editVars, events, debVars>>

\* a preview read of stage 1 rejects
InvokeReadFails(q, cur, i) ==
    /\ i \in readPositions(localMatches(toLowerCase(q), recentFiles))
    /\ Issue(abort(invocation(q, cur, recentFiles)))

\* stage 1 completes and stage 2 is skipped
InvokeLocal(q, cur) ==
    /\ ~(Len(toLowerCase(q)) > 0 /\ omnisearch)
    /\ Issue(settle(invocation(q, cur, recentFiles),
                    invocation(q, cur, recentFiles).map))

\* stage 1 completes and the invocation awaits the search
InvokeSearch(q, cur) ==
    /\ Len(toLowerCase(q)) > 0 /\ omnisearch
    /\ Issue(invocation(q, cur, recentFiles))

OverlapSearchResolve(n, hits) ==
    /\ invocations[n].pc = "searching"
    /\ Update(n, advance(invocations[n],
                         foldUnresolved(invocations[n].map, <<>>, hits, 1, recentFiles),
                         hits))
    /\ UNCHANGED <<hostVars, suggVars, editVars, events, debVars>>

OverlapSearchReject(n) ==
    /\ invocations[n].pc = "searching"
    /\ Update(n, settle(invocations[n], invocations[n].map))
    /\ UNCHANGED <<hostVars, suggVars, editVars, events, debVars>>

OverlapReadResolve(n) ==
    /\ invocations[n].pc = "reading"
    /\ LET inv == invocations[n]
           sug == omniSug(inv.hits[inv.idx], recentFiles)
       IN  Update(n, advance(inv,
                             foldUnresolved(mergeOmni(inv.map, sug), <<>>, inv.hits,
                                            inv.idx + 1, recentFiles),
                             inv.hits))
    /\ UNCHANGED <<hostVars, suggVars, editVars, events, debVars>>

OverlapReadReject(n) ==
    /\ invocations[n].pc = "reading"
    /\ Update(n, settle(invocations[n], invocations[n].map))
    /\ UNCHANGED <<hostVars, suggVars, editVars, events, debVars>>

\* the working sets of the runs with overlapping invocations
OverlapLists == {s \in OpenLists : Len(s) = 1}

InitOverlap ==
    /\ lastOpenFiles \in OverlapLists
    /\ recentFiles = updateRecentFiles(lastOpenFiles)
    /\ plugin = "registered"
    /\ omnisearch = TRUE
    /\ notices = 0
    /\ IdleSuggester
    /\ IdleEditor
    /\ IdleOther

NextOverlap ==
    \/ \E q \in QuerySet, cur \in CurrentSet :
          \E i \in 1..Len(localMatches(toLowerCase(q), recentFiles)) :
              InvokeReadFails(q, cur, i)
    \/ \E q \in QuerySet, cur \in CurrentSet : InvokeLocal(q, cur)
    \/ \E q \in QuerySet, cur \in CurrentSet : InvokeSearch(q, cur)
    \/ \E n \in 1..Len(invocations), hits \in HitLists : OverlapSearchResolve(n, hits)
    \/ \E n \in 1..Len(invocations) : OverlapSearchReject(n)
    \/ \E n \in 1..Len(invocations) : OverlapReadResolve(n)
    \/ \E n \in 1..Len(invocations) : OverlapReadReject(n)

SpecOverlap == InitOverlap /\ [][NextOverlap]_vars

----------------------------------------------------------------------------
(* The recency tracker alone, under a host list longer than the capacity *)

\* a host list with a stale path near its head
LongList == <<P1, Gone, P2, P3, P4>> \o Fillers

LongLists == {Slice(LongList, n) : n \in {0} \cup ((MaxHostList - 3)..MaxHostList)}

\* the host activates document p; the "file-open" listener refreshes the working set
FileOpenLong(p) ==
    /\ events < MaxEvents
    /\ events' = events + 1
    /\ lastOpenFiles' = hostActivateLong(lastOpenFiles, p)
    /\ recentFiles' = IF plugin = "registered"
                      THEN updateRecentFiles(lastOpenFiles') ELSE recentFiles
    /\ UNCHANGED <<plugin, omnisearch, notices, suggVars, editVars,
                   invocations, delivered, debVars>>

InitRecency ==
    /\ lastOpenFiles \in LongLists
    /\ recentFiles = <<>>
    /\ plugin = "init"
    /\ omnisearch \in BOOLEAN
    /\ notices = 0
    /\ IdleSuggester
    /\ IdleEditor
    /\ IdleOther

NextRecency ==
    \/ OnLoadMissing
    \/ OnLoadRegister
    \/ \E p \in LivePaths : FileOpenLong(p)

SpecRecency == InitRecency /\ [][NextRecency]_vars

----------------------------------------------------------------------------
(* debounced(func, delay) of src/utils.ts: the returned function, the timer *)
(* callback, and func settling                                              *)

\* arguments of the calls
CallArgs == {"x", "y"}

\* the promise of call c is settled with the outcome of the invocation of func
\* made for call by; settling a settled promise has no effect
settlePromise(cs, c, outcomeOf, by) ==
    IF c = 0 \/ cs[c].state # "pending" THEN cs
    ELSE [cs EXCEPT ![c].state = outcomeOf, ![c].by = by]

\* the returned function without the clearTimeout of the pending timer
CallNoClear(a) ==
    /\ Len(calls) < MaxCalls
    /\ calls' = Append(calls, [arg |-> a, at |-> now, state |-> "pending", by |-> 0])
    /\ currentResolve' = Len(calls) + 1
    /\ timers' = timers \cup {[id |-> Len(calls) + 1, due |-> now + Delay]}
    /\ timeout' = Len(calls) + 1
    /\ UNCHANGED <<now, running, invoked, hostVars, suggVars, editVars,
                   invocations, delivered, events>>

\* the returned function is called with argument a
Call(a) ==
    /\ Len(calls) < MaxCalls
    /\ calls' = Append(calls, [arg |-> a, at |-> now, state |-> "pending", by |-> 0])
    /\ currentResolve' = Len(calls) + 1
    /\ timers' = (IF timeout # 0 THEN {t \in timers : t.id # timeout} ELSE timers)
                      \cup {[id |-> Len(calls) + 1, due |-> now + Delay]}
    /\ timeout' = Len(calls) + 1
    /\ UNCHANGED <<now, running, invoked, hostVars, suggVars, editVars,
                   invocations, delivered, events>>

\* time passes; the clock runs on while a timer is not yet due
Tick ==
    /\ now < MaxTime \/ \E t \in timers : t.due > now
    /\ now' = now + 1
    /\ UNCHANGED <<timers, timeout, currentResolve, calls, running, invoked,
                   hostVars, suggVars, editVars, invocations, delivered, events>>

\* the timer of call id fires, no earlier than its delay: timeout = null, then
\* func is applied to the arguments of that call and awaited
Fire(id) ==
    /\ \E t \in timers : t.id = id /\ t.due <= now
    /\ timers' = {t \in timers : t.id # id}
    /\ timeout' = 0
    /\ running' = running \cup {id}
    /\ invoked' = Append(invoked, [id |-> id, at |-> now, last |-> Len(calls)])
    /\ UNCHANGED <<now, currentResolve, calls, hostVars, suggVars, editVars,
                   invocations, delivered, events>>

\* func applied to the arguments of call id resolves: currentResolve(result),
\* then the finally block
FuncResolve(id) ==
    /\ id \in running
    /\ running' = running \ {id}
    /\ calls' = settlePromise(calls, currentResolve, "resolved", id)
    /\ currentResolve' = 0
    /\ UNCHANGED <<now, timers, timeout, invoked, hostVars, suggVars, editVars,
                   invocations, delivered, events>>

\* func applied to the arguments of call id throws or rejects:
\* currentReject(error), then the finally block
FuncReject(id) ==
    /\ id \in running
    /\ running' = running \ {id}
    /\ calls' = settlePromise(calls, currentResolve, "rejected", id)
    /\ currentResolve' = 0
    /\ UNCHANGED <<now, timers, timeout, invoked, hostVars, suggVars, editVars,
                   invocations, delivered, events>>

InitDebounced ==
    /\ lastOpenFiles = <<>>
    /\ recentFiles = <<>>
    /\ plugin = "registered"
    /\ omnisearch = TRUE
    /\ notices = 0
    /\ IdleSuggester
    /\ IdleEditor
    /\ IdleOther

NextDebounced ==
    \/ \E a \in CallArgs : Call(a)
    \/ Tick
    \/ \E id \in 1..Len(calls) : Fire(id)
    \/ \E id \in 1..Len(calls) : FuncResolve(id)
    \/ \E id \in 1..Len(calls) : FuncReject(id)

SpecDebounced == InitDebounced /\ [][NextDebounced]_vars

\* the host's timers fire, time passes, and every invocation of func settles
FairDebounced ==
    /\ WF_vars(Tick)
    /\ WF_vars(\E id \in 1..Len(calls) : Fire(id))
    /\ WF_vars(\E id \in 1..Len(calls) : FuncResolve(id) \/ FuncReject(id))

SpecDebouncedFair == InitDebounced /\ [][NextDebounced]_vars /\ FairDebounced

----------------------------------------------------------------------------
(* Properties of getSuggestions *)

Returned == pc = "done" /\ outcome = "resolved"

\* the index of the first element of s equal to x
firstIndex(s, x) == Min({k \in 1..Len(s) : s[k] = x})

\* C1: the list returned by getSuggestions never holds two candidates with the
\* same insertText
UniqueInsertionKeys ==
    Returned =>
        \A i, j \in 1..Len(result) :
            i # j => result[i].insertText # result[j].insertText

\* a returned list of two or more, after local and external candidates collided
UniqueInsertionKeysWitness ==
    /\ Returned
    /\ Len(result) >= 2
    /\ Len(folded) > 0
    /\ \E k \in 1..Len(folded) :
           \E l \in 1..Len(recentMatches) :
               recentMatches[l].insertText = folded[k].insertText
    /\ \E k, l \in 1..Len(recentMatches) :
           k # l /\ recentMatches[k].insertText = recentMatches[l].insertText

\* C2: no returned candidate has the filePath of the document being edited,
\* whether it came from the local engine or from the external search
SelfExcluded ==
    Returned => \A i \in 1..Len(result) : result[i].filePath # currentFilePath

\* the merged map held a local and a content candidate of the edited document
SelfExcludedWitness ==
    /\ Returned
    /\ currentFilePath # NoPath
    /\ \E i, j \in 1..Len(uniqueSuggestions) :
           /\ uniqueSuggestions[i].filePath = currentFilePath
           /\ uniqueSuggestions[i].type = "content"
           /\ uniqueSuggestions[j].filePath = currentFilePath
           /\ uniqueSuggestions[j].type # "content"
    /\ Len(result) > 0

\* C3: in a returned list every candidate with isRecent = TRUE precedes every
\* candidate with isRecent = FALSE, whatever their scores
RecentFirst ==
    Returned =>
        \A i, j \in 1..Len(result) :
            i < j => ~(~result[i].isRecent /\ result[j].isRecent)

\* a recent candidate is returned before a better-scored one that is not recent
RecentFirstWitness ==
    /\ Returned
    /\ \E i, j \in 1..Len(result) :
           /\ i < j
           /\ result[i].isRecent /\ ~result[j].isRecent
           /\ result[j].score > result[i].score

SameTier(a, b) == a.isRecent = b.isRecent

\* within one recency tier the scores do not increase
ScoreOrder ==
    Returned =>
        \A i, j \in 1..Len(result) :
            i < j /\ SameTier(result[i], result[j]) => result[i].score >= result[j].score

\* a before b in the order "local candidates in generation order, then
\* external hits in the order the engine returned them"
StreamBefore(a, b) ==
    \/ a.type # "content" /\ b.type = "content"
    \/ /\ a.type # "content" /\ b.type # "content"
       /\ firstIndex(recentMatches, a) < firstIndex(recentMatches, b)
    \/ /\ a.type = "content" /\ b.type = "content"
       /\ firstIndex(folded, a) < firstIndex(folded, b)

\* no local title or alias candidate was displaced by a content candidate
NoneDisplaced ==
    LET loc == mergeRecent(<<>>, recentMatches)
    IN  \A k \in 1..Len(loc) :
            loc[k].type \in {"note", "alias"}
            => mapGet(uniqueSuggestions, loc[k].insertText) = loc[k]

\* C4 as claimed: within a tier scores do not increase, and candidates of equal
\* tier and score appear local first, then external, each in its stream's order
\* (stated for the invocations in which no title or alias candidate is displaced)
TiesKeepStreamOrder ==
    /\ ScoreOrder
    /\ (Returned /\ NoneDisplaced) =>
           \A i, j \in 1..Len(result) :
               (i < j /\ SameTier(result[i], result[j])
                      /\ result[i].score = result[j].score)
               => StreamBefore(result[i], result[j])

\* the first place of a key in the stream of local candidates followed by the
\* content candidates
firstKeyIndex(key) ==
    LET stream == recentMatches \o folded
    IN  Min({k \in 1..Len(stream) : stream[k].insertText = key})

\* C4 as amended: within a tier scores do not increase, and candidates of equal
\* tier and score appear in the order in which their insertText first entered
\* the merge (a candidate that replaced one of the same key has its place)
TiesKeepKeyOrder ==
    /\ ScoreOrder
    /\ Returned =>
           \A i, j \in 1..Len(result) :
               (i < j /\ SameTier(result[i], result[j])
                      /\ result[i].score = result[j].score)
               => firstKeyIndex(result[i].insertText) < firstKeyIndex(result[j].insertText)

\* two returned candidates tie, and the first is a hit the engine returned
\* after the second: it took the place of the candidate it replaced
TiesKeepKeyOrderWitness ==
    /\ Returned
    /\ \E i, j \in 1..Len(result) :
           /\ i < j
           /\ SameTier(result[i], result[j])
           /\ result[i].score = result[j].score
           /\ result[i].type = "content" /\ result[j].type = "content"
           /\ firstIndex(folded, result[i]) > firstIndex(folded, result[j])

\* what the local match engine alone produces for a query and a working set
localOnly(q, recent, cur) ==
    finalList(mergeRecent(<<>>, localMatches(toLowerCase(q), recent)), cur)

\* C5: when the external search rejects, getSuggestions resolves, with exactly
\* the list the local engine alone produces for the query and the working set
FailureIsolation ==
    (pc = "done" /\ searchRejected) =>
        /\ outcome = "resolved"
        /\ result = localOnly(query, startRecent, currentFilePath)
        /\ \A i \in 1..Len(result) : result[i].type # "content"

\* the search rejected and local candidates were returned
FailureIsolationWitness ==
    /\ pc = "done"
    /\ searchRejected
    /\ searchCalls = 1
    /\ Len(result) > 0

\* C6: a local title or alias candidate is not displaced by a content match of
\* the same insertText, whatever the external score
LocalAuthoritative ==
    Returned =>
        \A k \in 1..Len(folded) :
            LET key == folded[k].insertText
                loc == mergeRecent(<<>>, recentMatches)
            IN  (mapHas(loc, key) /\ mapGet(loc, key).type \in {"note", "alias"})
                => mapGet(uniqueSuggestions, key) = mapGet(loc, key)

\* C9 as claimed: with an empty query the local engine yields one title-match
\* candidate per document of the working set, and nothing else
EmptyQueryAllRecent ==
    (pc = "done" /\ outcome = "resolved" /\ query = <<>>) =>
        /\ Len(recentMatches) = Len(startRecent)
        /\ \A k \in 1..Len(recentMatches) :
               /\ recentMatches[k].type = "note"
               /\ recentMatches[k].filePath = startRecent[k]

\* C9 as amended: with an empty query the local engine yields title-match
\* candidates only, one per document that has parsed metadata, in recency
\* order: all of them when the local stage completes, and those pushed before
\* the failing read when a preview read fails
EmptyQueryCachedRecent ==
    (pc = "done" /\ query = <<>>) =>
        LET cached == SelectSeq(startRecent, hasFileCache)
        IN  /\ Len(recentMatches) <= Len(cached)
            /\ outcome = "resolved" => Len(recentMatches) = Len(cached)
            /\ \A k \in 1..Len(recentMatches) :
                   /\ recentMatches[k].type = "note"
                   /\ recentMatches[k].filePath = cached[k]

\* an empty query over a working set with a document that has no metadata
EmptyQueryCachedRecentWitness ==
    /\ pc = "done" /\ outcome = "resolved" /\ query = <<>>
    /\ \E k \in 1..Len(startRecent) : ~hasFileCache(startRecent[k])
    /\ Len(recentMatches) >= 1

\* C10: an invocation calls omnisearchApi.search zero times when the query is
\* empty and exactly once when it is not
SearchCalledOncePerQuery ==
    pc = "done" => searchCalls = (IF query = <<>> THEN 0 ELSE 1)

\* C11: for a non-empty query, the string given to omnisearchApi.search is the
\* query as typed, with its case, not the lowercased copy
SearchGetsRawQuery ==
    searchCalls = 1 => searchArg = query

\* C13: no failure inside a suggestion request aborts it: whatever read or
\* search fails, getSuggestions resolves (with at worst the local-only list)
\* instead of rejecting
NeverRejects ==
    pc = "done" => outcome = "resolved"

\* C14: when window.omnisearch.search is absent at load time, one notice is
\* shown, the suggester is still registered with the editor (so that a trigger
\* is served from the working set), and omnisearchApi.search is never called
LocalOnlyWhenMissing ==
    (~omnisearch /\ plugin # "init") =>
        /\ notices = 1
        /\ plugin = "registered"
        /\ searchCalls = 0

\* C17: a document of the working set that has no parsed metadata contributes
\* no candidate to the returned list, and a request over documents without
\* metadata completes without error
NoMetadataNoCandidate ==
    /\ Returned =>
           \A k \in 1..Len(startRecent) :
               ~hasFileCache(startRecent[k])
               => \A i \in 1..Len(result) : result[i].filePath # startRecent[k]
    /\ (pc = "done" /\ \A k \in 1..Len(startRecent) : ~hasFileCache(startRecent[k]))
           => outcome = "resolved"

\* the map holds the merge of the local candidates only
LocalMergeOnly == pc = "searching" \/ (Returned /\ folded = <<>>)

\* the places in recentMatches of the candidates with the insertText of place k
sameKey(k) ==
    {l \in 1..Len(recentMatches) :
        recentMatches[l].insertText = recentMatches[k].insertText}

\* C19: among the local candidates that share an insertText the merge keeps
\* one with the highest score, and among those of equal highest score the
\* earliest generated
LocalCollisionKeepsBest ==
    LocalMergeOnly =>
        \A k \in 1..Len(recentMatches) :
            LET best == Max({recentMatches[l].score : l \in sameKey(k)})
                first == Min({l \in sameKey(k) : recentMatches[l].score = best})
            IN  /\ mapHas(uniqueSuggestions, recentMatches[k].insertText)
                /\ mapGet(uniqueSuggestions, recentMatches[k].insertText)
                       = recentMatches[first]

\* two documents of the working set yield different candidates of one
\* insertText and one score; the candidate of the more recent document is kept
LocalCollisionKeepsBestWitness ==
    /\ LocalMergeOnly
    /\ \E k, l \in 1..Len(recentMatches) :
           /\ k < l
           /\ recentMatches[k].insertText = recentMatches[l].insertText
           /\ recentMatches[k].score = recentMatches[l].score
           /\ recentMatches[k] # recentMatches[l]
           /\ mapGet(uniqueSuggestions, recentMatches[k].insertText) = recentMatches[k]

\* is path x the path of a document of the working set
inWorkingSet(x) == \E i \in 1..Len(recentFiles) : recentFiles[i] = x

\* C16: every content candidate, when it is built from a hit, gets isRecent =
\* TRUE if and only if the hit's path is the path of a document of the working
\* set at that moment
ContentTaggedByWorkingSet ==
    [][\A k \in (Len(folded) + 1)..Len(folded') :
           folded'[k].isRecent <=> inWorkingSet(folded'[k].filePath)]_vars

\* a returned invocation built a recent and a non-recent content candidate
ContentTaggedByWorkingSetWitness ==
    /\ Returned
    /\ \E k, l \in 1..Len(folded) :
           /\ folded[k].isRecent /\ inWorkingSet(folded[k].filePath)
           /\ ~folded[l].isRecent /\ ~inWorkingSet(folded[l].filePath)

\* C20: every read of the working set made by one invocation observes the
\* same working set: the one tagging an external hit reads is the one the
\* local loop iterated over, also when a file-open event fired in between
OneWorkingSetPerInvocation ==
    [][Len(folded') > Len(folded) => recentFiles = startRecent]_vars

\* the external stage of the invocation failed: the search rejected, or the
\* loop over the hits was left at hit idx by a rejected read
ExternalFailed == searchRejected \/ (idx >= 1 /\ idx <= Len(omniResults))

\* C21: when the external stage fails, by the search or while mapping a hit
\* after earlier hits were folded in, the returned list holds no content
\* candidate and is the list the local engine alone produces
ExternalAllOrNothing ==
    (Returned /\ ExternalFailed) =>
        /\ result = localOnly(query, startRecent, currentFilePath)
        /\ \A i \in 1..Len(result) : result[i].type # "content"

\* C22: the self-link filter removes only candidates of the edited document:
\* when a candidate generated for an insertText belongs to another document,
\* the returned list holds a candidate with that insertText
OtherDocumentKeyKept ==
    Returned =>
        \A k \in 1..Len(recentMatches \o folded) :
            LET c == (recentMatches \o folded)[k]
            IN  c.filePath # currentFilePath
                => \E i \in 1..Len(result) : result[i].insertText = c.insertText

----------------------------------------------------------------------------
(* Properties of overlapping invocations *)

\* C12: a response is delivered only while its invocation is still the most
\* recently issued one, so an older invocation's response never arrives after
\* a newer invocation's response
LatestRequestWins ==
    /\ \A k \in 1..Len(delivered) : delivered[k].id = delivered[k].issued
    /\ \A i, j \in 1..Len(delivered) : i < j => delivered[i].id < delivered[j].id

----------------------------------------------------------------------------
(* Properties of the recency tracker *)

\* the place of path x in the list s
placeIn(s, x) == Min({k \in 1..Len(s) : s[k] = x})

\* the working set of a constructed suggester: at most MAX_RECENT_FILES
\* documents, each resolving, each from the host's list, in the host's order
RecencyState ==
    plugin = "registered" =>
        /\ Len(recentFiles) <= MAX_RECENT_FILES
        /\ \A k \in 1..Len(recentFiles) :
               /\ getFileByPath(recentFiles[k])
               /\ \E l \in 1..Len(lastOpenFiles) : lastOpenFiles[l] = recentFiles[k]
        /\ \A i, j \in 1..Len(recentFiles) :
               i < j => placeIn(lastOpenFiles, recentFiles[i])
                            < placeIn(lastOpenFiles, recentFiles[j])

\* a step that changes the working set is the construction or a file-open event
RecencyFrame ==
    recentFiles' # recentFiles =>
        \/ plugin = "init" /\ plugin' = "registered"
        \/ events' = events + 1

\* C15: after construction and after any sequence of file-open events the
\* working set has at most 20 entries, holds only documents that resolved at
\* the last refresh, in the host's most-recent-first order, and it changes
\* only on such a refresh
RecencyBounded ==
    []RecencyState /\ [][RecencyFrame]_vars

\* after a file-open event the host's list is longer than the capacity, with a
\* stale path inside the capacity and a live document beyond it
RecencyBoundedWitness ==
    /\ plugin = "registered"
    /\ events > 0
    /\ Len(lastOpenFiles) > MAX_RECENT_FILES
    /\ \E k \in 1..MAX_RECENT_FILES : ~getFileByPath(lastOpenFiles[k])
    /\ \E k \in (MAX_RECENT_FILES + 1)..Len(lastOpenFiles) : getFileByPath(lastOpenFiles[k])
    /\ Len(recentFiles) = MAX_RECENT_FILES - 1

----------------------------------------------------------------------------
(* Properties of onTrigger *)

textBeforeCursor == SubSeq(line, 1, cursor)

\* is there a "]]" in t after the "[[" at i
closedAfter(t, i) ==
    \E j \in (i + 2)..(Len(t) - 1) : t[j] = "]" /\ t[j + 1] = "]"

\* the places of the "[[" of t that no "]]" closes before the end of t
unclosedMarkers(t) ==
    {i \in 1..(Len(t) - 1) : t[i] = "[" /\ t[i + 1] = "[" /\ ~closedAfter(t, i)}

\* C7: when an unterminated "[[" precedes the cursor, onTrigger returns a
\* trigger whose query is the text between the most recent such "[[" and the
\* cursor
TriggerQueryExact ==
    (tpc = "called" /\ unclosedMarkers(textBeforeCursor) # {}) =>
        /\ trigger.found
        /\ trigger.query = SubSeq(textBeforeCursor,
                                  Max(unclosedMarkers(textBeforeCursor)) + 2,
                                  Len(textBeforeCursor))

\* C8: onTrigger returns null when the text before the cursor holds no "[["
\* that is still unclosed at the cursor
NoMarkerNoTrigger ==
    (tpc = "called" /\ unclosedMarkers(textBeforeCursor) = {}) => ~trigger.found

\* the length of Q when l is P [[ Q ]] S with offset ch just after Q, and Q
\* holds no bracket
queryLengths(l, ch) ==
    {n \in 0..(ch - 2) :
        /\ l[ch - n - 1] = "[" /\ l[ch - n] = "["
        /\ \A j \in (ch - n + 1)..ch : l[j] \notin {"[", "]"}
        /\ Len(l) >= ch + 2
        /\ l[ch + 1] = "]" /\ l[ch + 2] = "]"}

\* C18: for a line P [[ Q ]] S with the cursor just after Q, onTrigger followed
\* by selectSuggestion of a candidate leaves the line P [[ insertText ]] S, and
\* selectSuggestion leaves the line alone when there is no active context
SelectReplacesQuery ==
    [][tpc' = "selected" =>
          /\ (tpc = "called" /\ queryLengths(line, cursor) # {}) =>
                 \E insertText \in SelectKeys :
                     line' = SubSeq(line, 1, cursor - Min(queryLengths(line, cursor)))
                             \o insertText \o SubSeq(line, cursor + 1, Len(line))
          /\ ~(tpc = "called" /\ trigger.found) => line' = line]_vars

----------------------------------------------------------------------------
(* Properties of debounced *)

\* the invocations of func made for call c
invocationsFor(c) == {k \in 1..Len(invoked) : invoked[k].id = c}

\* C23: a burst is coalesced: at most one timer is pending; func is invoked
\* only with the arguments of the call that is the last one when its timer
\* fires, no earlier than delay after that call and at most once, never for a
\* call followed by another less than delay later; and once no timer is
\* pending the last call has had its invocation
BurstCoalesced ==
    /\ Cardinality(timers) <= 1
    /\ \A k \in 1..Len(invoked) :
           /\ invoked[k].id = invoked[k].last
           /\ invoked[k].at >= calls[invoked[k].id].at + Delay
    /\ \A c \in 1..Len(calls) :
           /\ Cardinality(invocationsFor(c)) <= 1
           /\ (c < Len(calls) /\ calls[c + 1].at < calls[c].at + Delay)
                  => invocationsFor(c) = {}
    /\ (timers = {} /\ calls # <<>>) => Cardinality(invocationsFor(Len(calls))) = 1

\* two calls less than delay apart with different arguments: func has run
\* once, for the second
BurstCoalescedWitness ==
    /\ Len(calls) = 2
    /\ calls[2].at < calls[1].at + Delay
    /\ calls[1].arg # calls[2].arg
    /\ timers = {}
    /\ Len(invoked) = 1
    /\ invoked[1].id = 2

\* C24: the promise returned by a call is only ever settled with the outcome
\* of func applied to the arguments of that same call
SettledByOwnInvocation ==
    \A c \in 1..Len(calls) : calls[c].state # "pending" => calls[c].by = c

\* C25: every promise returned by the debounced function eventually settles,
\* the promises of superseded calls included, when every invocation of func
\* settles and calls stop arriving
EveryPromiseSettles ==
    <>[](\A c \in 1..Len(calls) : calls[c].state # "pending")

====
